---- MODULE Spec2Model ----
(***************************************************************************)
(* A model of the package geo (pault.ag/go/geo): unit types, the AER/ENU   *)
(* conversions, the WGS84 coordinate system and HaversineDistance.         *)
(*                                                                         *)
(* Every number of the package is a float64.  The model keeps floating     *)
(* point arithmetic, with a decimal significand of 8 digits instead of a   *)
(* binary one of 53 bits: a value is [m |-> significand, e |-> exponent],  *)
(* standing for m * 10^e, every operation rounds its exact result to the   *)
(* nearest representable value, ties to even, and x/0 gives Inf or NaN.    *)
(* The functions of package math are computed as package math computes     *)
(* them (argument reduction, then a polynomial or a series), in this       *)
(* arithmetic.                                                             *)
(* The sign of zero is not modelled.                                       *)
(*                                                                         *)
(* A function of the package whose var block names intermediate values is  *)
(* modelled in stages: F takes the arguments and computes the first        *)
(* values, F_<name> takes these and computes the value <name>, and so on   *)
(* to the return statement.                                                *)
(***************************************************************************)
EXTENDS Integers, Sequences, FiniteSets

\* ------------------------------------------------------------- float64
Lo   == 10^7        \* smallest significand of a normal value
Hi   == 10^8        \* one more than the largest significand
Half == 10^4        \* splits a significand in two halves of 4 digits

SpecialExp == 10^3  \* exponent marking the values that are not finite

Abs(n) == IF n < 0 THEN -n ELSE n
Sgn(n) == IF n < 0 THEN -1 ELSE IF n > 0 THEN 1 ELSE 0

Zero == [m |-> 0, e |-> 0]
NaN  == [m |-> 0, e |-> SpecialExp]
Inf(s) == [m |-> s, e |-> SpecialExp]

IsNaN(a)    == a.e = SpecialExp /\ a.m = 0
IsInf(a)    == a.e = SpecialExp /\ a.m # 0

\* q or q + 1: rounding to nearest, ties to even, where r2 is twice the
\* remainder left by the divisor d.
Round(q, r2, d) == IF r2 > d \/ (r2 = d /\ q % 2 = 1) THEN q + 1 ELSE q

\* n / d for n >= 0, d > 0, rounded.
RoundDiv(n, d) == Round(n \div d, 2 * (n % d), d)

RECURSIVE Pow10(_)
Pow10(k) == IF k <= 0 THEN 1 ELSE 10 * Pow10(k - 1)

\* The float nearest to m * 10^e, for an integer m.
RECURSIVE Norm(_, _)
Norm(m, e) ==
  IF m = 0 THEN Zero
  ELSE IF Abs(m) >= Hi THEN Norm(Sgn(m) * RoundDiv(Abs(m), 10), e + 1)
  ELSE IF Abs(m) < Lo THEN Norm(m * 10, e - 1)
  ELSE [m |-> m, e |-> e]

FromInt(n) == Norm(n, 0)

\* A decimal literal: Dec(m, e) is the float nearest to m * 10^e.
Dec(m, e) == Norm(m, e)

One == FromInt(1)
Two == FromInt(2)

FNeg(a) == [m |-> -a.m, e |-> a.e]
FAbs(a) == [m |-> Abs(a.m), e |-> a.e]
Signed(neg, a) == IF neg THEN FNeg(a) ELSE a

\* big + small, where big has the larger exponent: small is shifted right,
\* one guard digit kept; operands of equal exponent are added exactly.
FAddOrdered(big, small) ==
  IF big.e - small.e > 9 THEN big
  ELSE Norm(big.m * 10
              + Sgn(small.m)
                  * RoundDiv(Abs(small.m) * 10, Pow10(big.e - small.e)),
            big.e - 1)

\* a + b
FAdd(a, b) ==
  IF IsNaN(a) \/ IsNaN(b) THEN NaN
  ELSE IF IsInf(a) /\ IsInf(b) THEN (IF a.m = b.m THEN a ELSE NaN)
  ELSE IF IsInf(a) THEN a
  ELSE IF IsInf(b) THEN b
  ELSE IF a.m = 0 THEN b
  ELSE IF b.m = 0 THEN a
  ELSE IF a.e >= b.e THEN FAddOrdered(a, b)
  ELSE FAddOrdered(b, a)

\* a - b
FSub(a, b) == FAdd(a, FNeg(b))

\* <<hi, lo>> with hi * 10^8 + lo = high * 10^8 + low
MulSplit(high, low) == <<high + low \div Hi, low % Hi>>

\* The exact product of x1 * 10^4 + x0 and y1 * 10^4 + y0, as <<hi, lo>>,
\* from the partial products hh = x1 * y1, cross = x1 * y0 + x0 * y1 and
\* ll = x0 * y0.
MulCarry(hh, cross, ll) ==
  MulSplit(hh + cross \div Half, (cross % Half) * Half + ll)

MulParts(x1, x0, y1, y0) == MulCarry(x1 * y1, x1 * y0 + x0 * y1, x0 * y0)

\* The product of the significands x and y.
MulExact(x, y) == MulParts(x \div Half, x % Half, y \div Half, y % Half)

\* s * (p[1] * 10^8 + p[2]) * 10^e, rounded to 8 digits; p[1] has 7 or 8.
FMulRound(s, e, p) ==
  IF p[1] >= Lo THEN Norm(s * Round(p[1], 2 * p[2], Hi), e + 8)
  ELSE Norm(s * Round(p[1] * 10 + p[2] \div Lo, 2 * (p[2] % Lo), Lo), e + 7)

\* a * b
FMul(a, b) ==
  IF IsNaN(a) \/ IsNaN(b) THEN NaN
  ELSE IF IsInf(a) \/ IsInf(b)
    THEN (IF a.m = 0 \/ b.m = 0 THEN NaN ELSE Inf(Sgn(a.m) * Sgn(b.m)))
  ELSE IF a.m = 0 \/ b.m = 0 THEN Zero
  ELSE FMulRound(Sgn(a.m) * Sgn(b.m), a.e + b.e,
                 MulExact(Abs(a.m), Abs(b.m)))

\* n more digits of the quotient of r by y: <<quotient, remainder>>.
RECURSIVE DivDigits(_, _, _, _)
DivDigits(q, r, y, n) ==
  IF n = 0 THEN <<q, r>>
  ELSE DivDigits(q * 10 + (r * 10) \div y, (r * 10) % y, y, n - 1)

\* s * qr[1] * 10^e rounded to 8 digits, where qr[1] has 9 digits, the last
\* one the rounding digit, and qr[2] # 0 says that more digits follow.
FDivRound(s, e, qr) ==
  Norm(s * (IF qr[1] % 10 > 5
               \/ (qr[1] % 10 = 5 /\ (qr[2] > 0 \/ (qr[1] \div 10) % 2 = 1))
            THEN qr[1] \div 10 + 1
            ELSE qr[1] \div 10),
       e)

\* s * (x / y) * 10^e for significands x and y
FDivParts(s, e, x, y) ==
  IF x >= y THEN FDivRound(s, e - 7, DivDigits(x \div y, x % y, y, 8))
  ELSE FDivRound(s, e - 8, DivDigits(0, x, y, 9))

\* a / b
FDiv(a, b) ==
  IF IsNaN(a) \/ IsNaN(b) THEN NaN
  ELSE IF IsInf(a) THEN (IF IsInf(b) THEN NaN
                         ELSE Inf(a.m * (IF b.m < 0 THEN -1 ELSE 1)))
  ELSE IF IsInf(b) THEN Zero
  ELSE IF b.m = 0 THEN (IF a.m = 0 THEN NaN ELSE Inf(Sgn(a.m)))
  ELSE IF a.m = 0 THEN Zero
  ELSE FDivParts(Sgn(a.m) * Sgn(b.m), a.e - b.e, Abs(a.m), Abs(b.m))

\* a == b, a < b, a <= b
FEq(a, b) == ~IsNaN(a) /\ ~IsNaN(b) /\ a = b
FLt(a, b) == ~IsNaN(a) /\ ~IsNaN(b) /\ a # b /\ FSub(a, b).m < 0
FLe(a, b) == ~IsNaN(a) /\ ~IsNaN(b) /\ (a = b \/ FSub(a, b).m < 0)

\* Whether hi * 10^8 + lo <= n * 10^8, for p = <<hi, lo>>.
LeqScaled(p, n) == p[1] < n \/ (p[1] = n /\ p[2] = 0)

\* The largest r in lo..hi with r * r <= n * 10^8, for hi < 4 * 10^8.
RECURSIVE ISqrt(_, _, _)
ISqrt(n, lo, hi) ==
  IF lo >= hi THEN lo
  ELSE IF LeqScaled(MulExact((lo + hi + 1) \div 2, (lo + hi + 1) \div 2), n)
    THEN ISqrt(n, (lo + hi + 1) \div 2, hi)
  ELSE ISqrt(n, lo, (lo + hi + 1) \div 2 - 1)

\* n * 10^8 - (hi * 10^8 + lo), for p = <<hi, lo>> at most n * 10^8 and
\* next to it.
Excess(p, n) == (n - p[1]) * Hi - p[2]

\* The square root of n * 10^8 rounded to an integer, from r, its integer
\* part: r + 1 when the root is above r + 1/2, that is, n * 10^8 - r^2 > r.
SqrtRound(r, n) == IF Excess(MulExact(r, r), n) > r THEN r + 1 ELSE r

\* A tenth of the square root of n * 10^8, rounded to an integer, ties to
\* even, from r, the integer part of the root.
SqrtRoundTens(r, n) ==
  IF r % 10 > 5
       \/ (r % 10 = 5 /\ (Excess(MulExact(r, r), n) > 0 \/ (r \div 10) % 2 = 1))
  THEN r \div 10 + 1
  ELSE r \div 10

\* math.Sqrt
FSqrt(a) ==
  IF IsNaN(a) \/ a.m < 0 THEN NaN
  ELSE IF IsInf(a) \/ a.m = 0 THEN a
  ELSE IF a.e % 2 = 1
    THEN Norm(SqrtRoundTens(ISqrt(a.m * 10, 3 * Lo, 32 * Lo), a.m * 10),
              ((a.e - 1) \div 2) - 3)
  ELSE Norm(SqrtRound(ISqrt(a.m, 3 * Lo, 32 * Lo), a.m), (a.e \div 2) - 4)

\* uint64(x) for a finite x >= 0: the integer part.
Trunc(a) ==
  IF a.e >= 0 THEN a.m * Pow10(a.e)
  ELSE IF a.e < -8 THEN 0
  ELSE a.m \div Pow10(-a.e)

\* ---------------------------------------------------------------- math
Pi      == Dec(31415927, -7)     \* math.Pi
PiOver2 == Dec(15707963, -7)     \* math.Pi / 2
PiOver4 == Dec(78539816, -8)     \* math.Pi / 4
FourOverPi == Dec(12732395, -7)  \* 4 / math.Pi

\* (...((acc * zz + c[k]) * zz + c[k+1])...) * zz + c[Len(c)]
RECURSIVE Horner(_, _, _, _)
Horner(c, zz, k, acc) ==
  IF IsNaN(acc) \/ k > Len(c) THEN acc
  ELSE Horner(c, zz, k + 1, FAdd(FMul(acc, zz), c[k]))

\* The coefficients _sin and _cos of math.Sin and math.Cos: those of the
\* Taylor series, -1/11!, 1/9!, ..., -1/3! and 1/12!, -1/10!, ..., 1/4!.
SinCoef == << Dec(-25052108, -15), Dec(27557319, -13), Dec(-19841270, -11),
              Dec(83333333, -10), Dec(-16666667, -8) >>
CosCoef == << Dec(20876757, -16), Dec(-27557319, -14), Dec(24801587, -12),
              Dec(-13888889, -10), Dec(41666667, -9) >>

\* z + z*zz*((((_sin[0]*zz)+_sin[1])*zz+...)
SinPolyZZ(z, zz) ==
  FAdd(z, FMul(FMul(z, zz), Horner(SinCoef, zz, 2, SinCoef[1])))

SinPoly(z) == SinPolyZZ(z, FMul(z, z))

\* 1.0 - 0.5*zz + zz*zz*((((_cos[0]*zz)+_cos[1])*zz+...)
CosPolyZZ(zz) ==
  FAdd(FSub(One, FMul(Dec(5, -1), zz)),
       FMul(FMul(zz, zz), Horner(CosCoef, zz, 2, CosCoef[1])))

CosPoly(z) == CosPolyZZ(FMul(z, z))

\* The octant j mod 8 and the reduced argument z = x - j * Pi/4, for the j
\* that math.Sin and math.Cos compute: uint64(x * 4/Pi), made even.
OctantOf(x, j) == [j |-> j % 8, z |-> FSub(x, FMul(FromInt(j), PiOver4))]
MakeEven(j) == IF j % 2 = 1 THEN j + 1 ELSE j
Octant(x) == OctantOf(x, MakeEven(Trunc(FMul(x, FourOverPi))))

\* math.Sin on the octant o; neg: the argument was negative.
SinOctant(neg, o) ==
  Signed(neg # (o.j > 3),
         IF o.j % 4 = 1 \/ o.j % 4 = 2 THEN CosPoly(o.z) ELSE SinPoly(o.z))

\* math.Sin
Sin(x) ==
  IF IsNaN(x) \/ x.m = 0 THEN x
  ELSE IF IsInf(x) THEN NaN
  ELSE SinOctant(x.m < 0, Octant(FAbs(x)))

\* math.Cos on the octant o.
CosOctant(o) ==
  Signed((o.j > 3) # (o.j % 4 > 1),
         IF o.j % 4 = 1 \/ o.j % 4 = 2 THEN SinPoly(o.z) ELSE CosPoly(o.z))

\* math.Cos
Cos(x) ==
  IF IsNaN(x) \/ IsInf(x) THEN NaN
  ELSE CosOctant(Octant(FAbs(x)))

AtanTerms == 24   \* terms of the series of xatan: 0.66^49 / 49 < 10^-10

\* c(k) - zz * acc, down to k = 0, where c(k) = 1/(2k+1): the series
\* 1 - zz/3 + zz^2/5 - ... by Horner's rule, from acc = c(AtanTerms).
RECURSIVE AtanSeries(_, _, _)
AtanSeries(zz, k, acc) ==
  IF IsNaN(acc) \/ k = 0 THEN acc
  ELSE AtanSeries(zz, k - 1,
                  FSub(FDiv(One, FromInt(2 * k - 1)), FMul(zz, acc)))

\* xatan of math.Atan: the arctangent on [-0.66, 0.66].
XAtan(z) ==
  FMul(z, AtanSeries(FMul(z, z), AtanTerms,
                     FDiv(One, FromInt(2 * AtanTerms + 1))))

\* satan of math.Atan, its range reduction for x > 0: atan(x) is
\* off + xatan(z), or off - xatan(z) when neg.
SAtanReduce(x) ==
  IF FLe(x, Dec(66, -2))
    THEN [off |-> Zero, neg |-> FALSE, z |-> x]
  ELSE IF FLt(Dec(24142136, -7), x)
    THEN [off |-> PiOver2, neg |-> TRUE, z |-> FDiv(One, x)]
  ELSE [off |-> PiOver4, neg |-> FALSE,
        z |-> FDiv(FSub(x, One), FAdd(x, One))]

SAtanSum(r) == FAdd(r.off, Signed(r.neg, XAtan(r.z)))

SAtan(x) == SAtanSum(SAtanReduce(x))

\* math.Atan
Atan(x) ==
  IF x.m = 0 THEN x
  ELSE IF IsInf(x) THEN Signed(x.m < 0, PiOver2)
  ELSE Signed(x.m < 0, SAtan(FAbs(x)))

\* math.Copysign(mag, y) for mag >= 0
CopySign(mag, y) == Signed(y.m < 0, mag)

\* math.Atan2, its last lines: q = Atan(y/x) moved to the quadrant of x.
Atan2Quadrant(neg, q) ==
  IF neg THEN (IF FLe(q, Zero) THEN FAdd(q, Pi) ELSE FSub(q, Pi)) ELSE q

\* math.Atan2
Atan2(y, x) ==
  IF IsNaN(x) \/ IsNaN(y) THEN NaN
  ELSE IF y.m = 0 THEN (IF x.m >= 0 THEN Zero ELSE Pi)
  ELSE IF x.m = 0 THEN CopySign(PiOver2, y)
  ELSE IF IsInf(x)
    THEN (IF x.m > 0
            THEN (IF IsInf(y) THEN CopySign(PiOver4, y) ELSE Zero)
            ELSE (IF IsInf(y) THEN CopySign(Dec(23561945, -7), y)
                  ELSE CopySign(Pi, y)))
  ELSE IF IsInf(y) THEN CopySign(PiOver2, y)
  ELSE Atan2Quadrant(x.m < 0, Atan(FDiv(y, x)))

\* math.Pow(x, 2)
Pow2(x) == FMul(x, x)

\* --------------------------------------------------- package variables
VARIABLES
  earthRadiusMeters,  \* haversine.go: the radius of the spherical earth
  wgs84A,             \* types.go: semimajor axis
  wgs84B,             \* semiminor axis
  wgs84F,             \* flatness
  wgs84FInv,          \* inverse of the flatness
  wgs84ASq,           \* wgs84A squared
  wgs84BSq,           \* wgs84B squared
  wgs84ESq,           \* eccentricity squared
  hist                \* per caller, the calls it made, oldest first

globals == <<earthRadiusMeters, wgs84A, wgs84B, wgs84F, wgs84FInv,
             wgs84ASq, wgs84BSq, wgs84ESq>>
vars == <<globals, hist>>

\* The initializers of the package variables.
InitEarthRadiusMeters == Dec(6371000, 0)
InitWgs84A    == Dec(63781370, -1)
InitWgs84B    == Dec(63567523, -1)      \* 6356752.314245
InitWgs84F    == FDiv(FSub(InitWgs84A, InitWgs84B), InitWgs84A)
InitWgs84FInv == FDiv(One, InitWgs84F)
InitWgs84ASq  == FMul(InitWgs84A, InitWgs84A)
InitWgs84BSq  == FMul(InitWgs84B, InitWgs84B)
InitWgs84ESq  == FMul(InitWgs84F, FSub(Two, InitWgs84F))

\* ----------------------------------------------------------- unit types
PiOver180 == Dec(17453293, -9)   \* the constant math.Pi / 180
C180OverPi == Dec(57295780, -6)  \* the constant 180 / math.Pi

\* func (d Degrees) Radians() Radians
Degrees_Radians(d) == FMul(PiOver180, d)

\* func (r Radians) Degrees() Degrees
Radians_Degrees(r) == FMul(C180OverPi, r)

\* --------------------------------------------------------- AER and ENU
\* AER.ENU, its return statement.
AER_ENU_return(range, sinTheta, cosTheta, sinPhi, cosPhi) ==
  [East  |-> FMul(range, FMul(sinPhi, cosTheta)),
   North |-> FMul(range, FMul(cosPhi, sinTheta)),
   Up    |-> FMul(range, sinTheta)]

\* func (aed AER) ENU() ENU
AER_ENU(aed) ==
  AER_ENU_return(aed.Range,
                 Sin(Degrees_Radians(aed.Elevation)),
                 Cos(Degrees_Radians(aed.Elevation)),
                 Sin(Degrees_Radians(aed.Azimuth)),
                 Cos(Degrees_Radians(aed.Azimuth)))

\* ENU.AER, its return statement.
ENU_AER_return(enu, r) ==
  [Azimuth   |-> Atan2(enu.East, enu.North),
   Elevation |-> Atan2(enu.Up, r),
   Range     |-> FSqrt(FAdd(FMul(r, r), FMul(enu.Up, enu.Up)))]

\* func (enu ENU) AER() AER
ENU_AER(enu) ==
  ENU_AER_return(enu, FSqrt(FAdd(FMul(enu.East, enu.East),
                                 FMul(enu.North, enu.North))))

\* --------------------------------------------------------------- wgs84
\* LLAToXYZ, its return statement.
LLAToXYZ_return(alt, n, sinLambda, cosLambda, sinPhi, cosPhi) ==
  [X |-> FMul(FMul(FAdd(alt, n), cosLambda), cosPhi),
   Y |-> FMul(FMul(FAdd(alt, n), cosLambda), sinPhi),
   Z |-> FMul(FAdd(alt, FMul(FSub(One, wgs84ESq), n)), sinLambda)]

\* LLAToXYZ, from the sines and cosines on: n.
LLAToXYZ_n(alt, sinLambda, cosLambda, sinPhi, cosPhi) ==
  LLAToXYZ_return(
    alt,
    FDiv(wgs84A, FSqrt(FSub(One, FMul(FMul(wgs84ESq, sinLambda), sinLambda)))),
    sinLambda, cosLambda, sinPhi, cosPhi)

\* A variant of LLAToXYZ that follows the names of its variables: lambda,
\* the longitude of the textbooks, taken from Longitude, and phi from
\* Latitude.
LLAToXYZ_swapped(l) ==
  LET lambda == Degrees_Radians(l.Longitude)
      phi    == Degrees_Radians(l.Latitude)
  IN  LLAToXYZ_n(l.Altitude, Sin(lambda), Cos(lambda), Sin(phi), Cos(phi))

\* func (w wgs84) LLAToXYZ(l LLA) XYZ
LLAToXYZ(l) ==
  LET lambda == Degrees_Radians(l.Latitude)
      phi    == Degrees_Radians(l.Longitude)
  IN  LLAToXYZ_n(l.Altitude, Sin(lambda), Cos(lambda), Sin(phi), Cos(phi))

\* XYZToLLA, from phi on: lambda, v, h and the return statement.
XYZToLLA_h(x, p, phi) ==
  LET lambda == Atan2(x.Y, x.X)
      v == FDiv(wgs84A,
                FSqrt(FSub(One, FMul(FMul(wgs84ESq, Sin(phi)), Sin(phi)))))
      h == FSub(FDiv(p, Cos(phi)), v)
  IN  [Latitude  |-> Radians_Degrees(phi),
       Longitude |-> Radians_Degrees(lambda),
       Altitude  |-> h]

\* XYZToLLA, from sinQ and cosQ on: sinQ3, cosQ3, phi.
XYZToLLA_phi(x, eps, p, sinQ, cosQ) ==
  LET sinQ3 == FMul(FMul(sinQ, sinQ), sinQ)
      cosQ3 == FMul(FMul(cosQ, cosQ), cosQ)
  IN  XYZToLLA_h(x, p,
                 Atan2(FAdd(x.Z, FMul(FMul(eps, wgs84B), sinQ3)),
                       FSub(p, FMul(FMul(wgs84ESq, wgs84A), cosQ3))))

\* XYZToLLA, from q on: sinQ, cosQ.
XYZToLLA_q(x, eps, p, q) == XYZToLLA_phi(x, eps, p, Sin(q), Cos(q))

\* XYZToLLA, from p on: q.
XYZToLLA_p(x, eps, p) ==
  XYZToLLA_q(x, eps, p, Atan2(FMul(x.Z, wgs84A), FMul(p, wgs84B)))

\* func (w wgs84) XYZToLLA(x XYZ) LLA
XYZToLLA(x) ==
  XYZToLLA_p(x, FDiv(wgs84ESq, FSub(One, wgs84ESq)),
             FSqrt(FAdd(FMul(x.X, x.X), FMul(x.Y, x.Y))))

\* XYZToENU, its values xd, yd, zd: the offset of e from xref.
XYZToENU_d(e, xref) ==
  [X |-> FSub(e.X, xref.X), Y |-> FSub(e.Y, xref.Y), Z |-> FSub(e.Z, xref.Z)]

\* A variant of the return statement of XYZToENU whose East has a term in
\* the Z offset.
XYZToENU_return_zTerm(sinLambda, cosLambda, sinPhi, cosPhi, d) ==
  [East  |-> FAdd(FAdd(FMul(FNeg(sinPhi), d.X), FMul(cosPhi, d.Y)),
                  FMul(cosLambda, d.Z)),
   North |-> FAdd(FSub(FMul(FMul(FNeg(cosPhi), sinLambda), d.X),
                       FMul(FMul(sinLambda, sinPhi), d.Y)),
                  FMul(cosLambda, d.Z)),
   Up    |-> FAdd(FAdd(FMul(FMul(cosLambda, cosPhi), d.X),
                       FMul(FMul(cosLambda, sinPhi), d.Y)),
                  FMul(sinLambda, d.Z))]

\* XYZToENU, its return statement.
XYZToENU_return(sinLambda, cosLambda, sinPhi, cosPhi, d) ==
  [East  |-> FAdd(FMul(FNeg(sinPhi), d.X), FMul(cosPhi, d.Y)),
   North |-> FAdd(FSub(FMul(FMul(FNeg(cosPhi), sinLambda), d.X),
                       FMul(FMul(sinLambda, sinPhi), d.Y)),
                  FMul(cosLambda, d.Z)),
   Up    |-> FAdd(FAdd(FMul(FMul(cosLambda, cosPhi), d.X),
                       FMul(FMul(cosLambda, sinPhi), d.Y)),
                  FMul(sinLambda, d.Z))]

\* XYZToENU, the rotation of the offset d into the tangent plane at ref.
XYZToENU_rot(ref, d) ==
  LET lambda == Degrees_Radians(ref.Latitude)
      phi    == Degrees_Radians(ref.Longitude)
  IN  XYZToENU_return(Sin(lambda), Cos(lambda), Sin(phi), Cos(phi), d)

\* func (w wgs84) XYZToENU(ref LLA, e XYZ) ENU
XYZToENU(ref, e) == XYZToENU_rot(ref, XYZToENU_d(e, LLAToXYZ(ref)))

\* func (w wgs84) LLAToENU(ref, lla LLA) ENU
LLAToENU(ref, lla) == XYZToENU(ref, LLAToXYZ(lla))

\* ENUToXYZ, its values x0, y0, z0.
ENUToXYZ_0_return(alt, n, sinLambda, cosLambda, sinPhi, cosPhi) ==
  [X |-> FMul(FMul(FAdd(alt, n), cosLambda), cosPhi),
   Y |-> FMul(FMul(FAdd(alt, n), cosLambda), sinPhi),
   Z |-> FMul(FAdd(alt, FMul(FSub(One, wgs84ESq), n)), sinLambda)]

\* ENUToXYZ, from s and the sines and cosines on: n.
ENUToXYZ_0_n(alt, s, sinLambda, cosLambda, sinPhi, cosPhi) ==
  ENUToXYZ_0_return(
    alt,
    FDiv(wgs84A, FSqrt(FSub(One, FMul(FMul(wgs84ESq, s), s)))),
    sinLambda, cosLambda, sinPhi, cosPhi)

\* ENUToXYZ: the position <<x0, y0, z0>> of the reference.
ENUToXYZ_0(ref) ==
  LET lambda == Degrees_Radians(ref.Latitude)
      phi    == Degrees_Radians(ref.Longitude)
  IN  ENUToXYZ_0_n(ref.Altitude, Sin(lambda),
                   Sin(lambda), Cos(lambda), Sin(phi), Cos(phi))

\* A variant of xd, yd, zd of ENUToXYZ that is not the transpose of the
\* rotation of XYZToENU: the sign of the east term of xd is that of
\* XYZToENU's north row.
ENUToXYZ_d_sign(sinLambda, cosLambda, sinPhi, cosPhi, east, north, up) ==
  [X |-> FAdd(FSub(FMul(sinPhi, east),
                   FMul(FMul(cosPhi, sinLambda), north)),
              FMul(FMul(cosLambda, cosPhi), up)),
   Y |-> FAdd(FSub(FMul(cosPhi, east),
                   FMul(FMul(sinLambda, sinPhi), north)),
              FMul(FMul(cosLambda, sinPhi), up)),
   Z |-> FAdd(FMul(cosLambda, north), FMul(sinLambda, up))]

\* ENUToXYZ, its values xd, yd, zd.
ENUToXYZ_d_return(sinLambda, cosLambda, sinPhi, cosPhi, east, north, up) ==
  [X |-> FAdd(FSub(FMul(FNeg(sinPhi), east),
                   FMul(FMul(cosPhi, sinLambda), north)),
              FMul(FMul(cosLambda, cosPhi), up)),
   Y |-> FAdd(FSub(FMul(cosPhi, east),
                   FMul(FMul(sinLambda, sinPhi), north)),
              FMul(FMul(cosLambda, sinPhi), up)),
   Z |-> FAdd(FMul(cosLambda, north), FMul(sinLambda, up))]

\* ENUToXYZ: the rotation <<xd, yd, zd>> of e out of the tangent plane at
\* ref.
ENUToXYZ_d(ref, e) ==
  LET lambda == Degrees_Radians(ref.Latitude)
      phi    == Degrees_Radians(ref.Longitude)
  IN  ENUToXYZ_d_return(Sin(lambda), Cos(lambda), Sin(phi), Cos(phi),
                        e.East, e.North, e.Up)

\* ENUToXYZ, its values x, y, z and its return statement.
ENUToXYZ_return(d, o) ==
  [X |-> FAdd(d.X, o.X), Y |-> FAdd(d.Y, o.Y), Z |-> FAdd(d.Z, o.Z)]

\* func (w wgs84) ENUToXYZ(ref LLA, e ENU) XYZ
ENUToXYZ(ref, e) == ENUToXYZ_return(ENUToXYZ_d(ref, e), ENUToXYZ_0(ref))

\* ----------------------------------------------------------- haversine
\* A variant of HaversineA that is not symmetric in the two points: the
\* cosine of the latitude of the origin taken twice.
HaversineA_originTwice(originLat, positionLat, deltaLon, deltaLat) ==
  FAdd(Pow2(Sin(FDiv(deltaLat, Two))),
       FMul(FMul(Cos(originLat), Cos(originLat)),
            Pow2(Sin(FDiv(deltaLon, Two)))))

\* A variant of HaversineA with the cosine of half the latitude delta in
\* place of its sine.
HaversineA_cosDelta(originLat, positionLat, deltaLon, deltaLat) ==
  FAdd(Pow2(Cos(FDiv(deltaLat, Two))),
       FMul(FMul(Cos(originLat), Cos(positionLat)),
            Pow2(Sin(FDiv(deltaLon, Two)))))

\* HaversineDistance, its statement a := ...
HaversineA(originLat, positionLat, deltaLon, deltaLat) ==
  FAdd(Pow2(Sin(FDiv(deltaLat, Two))),
       FMul(FMul(Cos(originLat), Cos(positionLat)),
            Pow2(Sin(FDiv(deltaLon, Two)))))

\* HaversineDistance, its statement c := ... and its last return.
HaversineC(a) ==
  [m   |-> FMul(earthRadiusMeters,
                FMul(Two, Atan2(FSqrt(a), FSqrt(FSub(One, a))))),
   err |-> FALSE]

\* A variant of HaversineDistance that rejects only when both altitudes
\* are nonzero.
HaversineDistance_bothNonzero(origin, position) ==
  IF origin.Altitude # Zero /\ position.Altitude # Zero
  THEN [m |-> Zero, err |-> TRUE]
  ELSE
    LET originLon   == Degrees_Radians(origin.Longitude)
        originLat   == Degrees_Radians(origin.Latitude)
        positionLon == Degrees_Radians(position.Longitude)
        positionLat == Degrees_Radians(position.Latitude)
        deltaLon    == FSub(originLon, positionLon)
        deltaLat    == FSub(originLat, positionLat)
    IN  HaversineC(HaversineA(originLat, positionLat, deltaLon, deltaLat))

\* func HaversineDistance(origin, position LLA) (Meters, error)
HaversineDistance(origin, position) ==
  IF origin.Altitude # Zero \/ position.Altitude # Zero
  THEN [m |-> Zero, err |-> TRUE]
  ELSE
    LET originLon   == Degrees_Radians(origin.Longitude)
        originLat   == Degrees_Radians(origin.Latitude)
        positionLon == Degrees_Radians(position.Longitude)
        positionLat == Degrees_Radians(position.Latitude)
        deltaLon    == FSub(originLon, positionLon)
        deltaLat    == FSub(originLat, positionLat)
    IN  HaversineC(HaversineA(originLat, positionLat, deltaLon, deltaLat))

\* -------------------------------------------------------------- callers
\* The package has no state of its own beyond its variables: the state of
\* the program is what its callers hold.  A caller makes calls one after
\* the other; it passes fresh values, or the result of its previous call
\* (as the tests of the package do, which chain the conversions).

MaxCalls     == 4   \* calls one caller makes, when it runs alone
ConcMaxCalls == 2   \* calls each caller makes, when two run together
NumLLA   == 4       \* positions the callers pass
NumRef   == 2       \* reference positions
NumShift == 3       \* offsets from a reference, in XYZ
NumENU   == 3       \* ENU vectors
NumAER   == 3       \* AER vectors
NumAngle == 3       \* angles

Min(a, b) == IF a < b THEN a ELSE b

LLA(lat, lon, alt) == [Latitude |-> lat, Longitude |-> lon, Altitude |-> alt]
XYZ(x, y, z) == [X |-> x, Y |-> y, Z |-> z]
ENU(e, n, u) == [East |-> e, North |-> n, Up |-> u]
AER(a, e, r) == [Azimuth |-> a, Elevation |-> e, Range |-> r]

LLAList == <<
  LLA(Dec(38870946, -6), Dec(-77055255, -6), Dec(100, 0)),
  LLA(Dec(2255, -2), Dec(4312, -2), Zero),
  LLA(Dec(1345, -2), Dec(10028, -2), Zero),
  LLA(Dec(90, 0), Dec(45, 0), Dec(100, 0)),
  LLA(Dec(51510357, -6), Dec(-116773, -6), Dec(10, 0)),
  LLA(Zero, Zero, Zero),
  LLA(Dec(51510357, -6), Dec(-116773, -6), Zero),
  LLA(Dec(38889931, -6), Dec(-77009003, -6), Zero),
  LLA(Dec(-33, 0), Dec(151, 0), Dec(5000, 0)),
  LLA(Dec(-90, 0), Dec(10, 0), Zero) >>

RefList == <<
  LLA(Dec(38897957, -6), Dec(-77036560, -6), Dec(30, 0)),
  LLA(Dec(34000000, -6), Dec(-11733357, -5), Dec(251702, -3)),
  LLA(Zero, Dec(90, 0), Zero),
  LLA(Dec(-45, 0), Dec(170, 0), Dec(1000, 0)),
  LLA(Dec(60, 0), Dec(-30, 0), Dec(-50, 0)) >>

ShiftList == <<
  XYZ(Zero, Zero, One),
  XYZ(Dec(-1500, 0), Dec(2500, 0), Dec(400, 0)),
  XYZ(Zero, Zero, Dec(-25000, 0)),
  XYZ(One, Zero, Zero),
  XYZ(Zero, One, Zero),
  XYZ(Zero, Zero, Zero),
  XYZ(Dec(120000, 0), Zero, Dec(-3, 0)) >>

ENUList == <<
  ENU(Dec(10, 0), Dec(20, 0), Dec(30, 0)),
  ENU(Zero, Zero, One),
  ENU(Zero, Zero, Zero),
  ENU(One, Zero, Zero),
  ENU(Zero, One, Zero),
  ENU(Dec(-16220195, -4), Dec(-29985663, -4), Dec(692441, -4)),
  ENU(Dec(-5, 0), Dec(3, 0), Dec(-2, 0)),
  ENU(Dec(25000, 0), Dec(-40000, 0), Dec(12000, 0)) >>

AERList == <<
  AER(Dec(45, 0), Dec(30, 0), Dec(100, 0)),
  AER(Zero, Zero, One),
  AER(Dec(90, 0), Zero, Dec(10, 0)),
  AER(Dec(-120, 0), Dec(60, 0), Dec(5, 0)),
  AER(Dec(180, 0), Dec(-45, 0), Dec(2500, 0)),
  AER(Dec(10, 0), Dec(90, 0), Dec(7, 0)) >>

DegreesList == << Dec(180, 0), Zero, Dec(90, 0), Dec(-45, 0),
                  Dec(38897957, -6), Dec(1, -3), Dec(360, 0), Dec(-1, 0) >>

RadiansList == << Pi, Zero, PiOver2, One, Dec(-25, -1),
                  Dec(1, -6), Dec(10, 0), Dec(-5, -1) >>

\* Whether callers run together.
Conc == Cardinality(DOMAIN hist) > 1

\* The first n values of a list; the first one alone when callers run
\* together.
Take(list, n) ==
  {list[i] : i \in 1..(IF Conc THEN 1 ELSE Min(n, Len(list)))}

LLAIn     == Take(LLAList, NumLLA)
RefIn     == Take(RefList, NumRef)
ShiftIn   == Take(ShiftList, NumShift)
ENUIn     == Take(ENUList, NumENU)
AERIn     == Take(AERList, NumAER)
DegreesIn == Take(DegreesList, NumAngle)
RadiansIn == Take(RadiansList, NumAngle)

\* The point at offset s from the position of r: what the tests pass to
\* XYZToENU.
ShiftedBy(o, s) == XYZ(FAdd(o.X, s.X), FAdd(o.Y, s.Y), FAdd(o.Z, s.Z))
Shifted(r, s) == ShiftedBy(LLAToXYZ(r), s)

XYZIn == {Shifted(r, s) : r \in RefIn, s \in ShiftIn}

NoRef == [none |-> TRUE]

Last(h) == h[Len(h)]

CanCall(c) ==
  Len(hist[c]) < (IF Conc THEN ConcMaxCalls ELSE MaxCalls)

\* The values caller c may pass: fresh ones on its first call, afterwards
\* the result of its previous call when that was one of ops.
Passes(c, ops, fresh) ==
  IF hist[c] = <<>> THEN fresh
  ELSE IF Last(hist[c]).op \in ops THEN {Last(hist[c]).out}
  ELSE {}

\* The references caller c may pass: the one of its previous call, if that
\* had one.
RefPasses(c) ==
  IF hist[c] # <<>> /\ Last(hist[c]).ref # NoRef THEN {Last(hist[c]).ref}
  ELSE RefIn

\* The reference of the previous call of caller c, which a call without one
\* hands on.
PrevRef(c) == IF hist[c] = <<>> THEN NoRef ELSE Last(hist[c]).ref

\* The call op(ref, arg) of caller c returns out.  No function of the
\* package assigns to a package variable.
Returns(c, op, ref, arg, out) ==
  /\ hist' = [hist EXCEPT ![c] =
                Append(@, [op |-> op, ref |-> ref, arg |-> arg, out |-> out])]
  /\ UNCHANGED globals

Call_Degrees_Radians(c) ==
  /\ CanCall(c)
  /\ \E d \in Passes(c, {"Radians_Degrees"}, DegreesIn) :
       Returns(c, "Degrees_Radians", NoRef, d, Degrees_Radians(d))

Call_Radians_Degrees(c) ==
  /\ CanCall(c)
  /\ \E r \in Passes(c, {"Degrees_Radians"}, RadiansIn) :
       Returns(c, "Radians_Degrees", NoRef, r, Radians_Degrees(r))

Call_AER_ENU(c) ==
  /\ CanCall(c)
  /\ \E aed \in Passes(c, {"ENU_AER"}, AERIn) :
       Returns(c, "AER_ENU", PrevRef(c), aed, AER_ENU(aed))

Call_ENU_AER(c) ==
  /\ CanCall(c)
  /\ \E enu \in Passes(c, {"AER_ENU", "XYZToENU", "LLAToENU"}, ENUIn) :
       Returns(c, "ENU_AER", PrevRef(c), enu, ENU_AER(enu))

Call_LLAToXYZ(c) ==
  /\ CanCall(c)
  /\ \E l \in Passes(c, {"XYZToLLA"}, LLAIn) :
       Returns(c, "LLAToXYZ", NoRef, l, LLAToXYZ(l))

Call_XYZToLLA(c) ==
  /\ CanCall(c)
  /\ \E x \in Passes(c, {"LLAToXYZ", "ENUToXYZ"}, XYZIn) :
       Returns(c, "XYZToLLA", NoRef, x, XYZToLLA(x))

Call_XYZToENU(c) ==
  /\ CanCall(c)
  /\ \E ref \in RefPasses(c) :
       \E e \in Passes(c, {"LLAToXYZ", "ENUToXYZ"}, XYZIn) :
         Returns(c, "XYZToENU", ref, e, XYZToENU(ref, e))

Call_ENUToXYZ(c) ==
  /\ CanCall(c)
  /\ \E ref \in RefPasses(c) :
       \E e \in Passes(c, {"XYZToENU", "LLAToENU", "AER_ENU"}, ENUIn) :
         Returns(c, "ENUToXYZ", ref, e, ENUToXYZ(ref, e))

Call_LLAToENU(c) ==
  /\ CanCall(c)
  /\ \E ref \in RefPasses(c) :
       \E lla \in Passes(c, {"XYZToLLA"}, LLAIn) :
         Returns(c, "LLAToENU", ref, lla, LLAToENU(ref, lla))

\* The pairs caller c may pass to HaversineDistance: fresh ones, or those
\* of its previous call, swapped.
PairPasses(c) ==
  IF hist[c] = <<>> THEN LLAIn \X LLAIn
  ELSE IF Last(hist[c]).op = "HaversineDistance"
    THEN {<<Last(hist[c]).arg[2], Last(hist[c]).arg[1]>>}
  ELSE {}

\* A variant of the call of HaversineDistance that keeps its result in a
\* package variable.
Call_HaversineDistance_keeping(c) ==
  /\ CanCall(c)
  /\ \E pair \in PairPasses(c) :
       /\ hist' = [hist EXCEPT ![c] =
                     Append(@, [op |-> "HaversineDistance", ref |-> NoRef,
                                arg |-> pair,
                                out |-> HaversineDistance(pair[1], pair[2])])]
       /\ earthRadiusMeters' = HaversineDistance(pair[1], pair[2]).m
       /\ UNCHANGED <<wgs84A, wgs84B, wgs84F, wgs84FInv,
                      wgs84ASq, wgs84BSq, wgs84ESq>>

Call_HaversineDistance(c) ==
  /\ CanCall(c)
  /\ \E pair \in PairPasses(c) :
       Returns(c, "HaversineDistance", NoRef, pair,
               HaversineDistance(pair[1], pair[2]))

InitGlobals ==
  /\ earthRadiusMeters = InitEarthRadiusMeters
  /\ wgs84A = InitWgs84A
  /\ wgs84B = InitWgs84B
  /\ wgs84F = InitWgs84F
  /\ wgs84FInv = InitWgs84FInv
  /\ wgs84ASq = InitWgs84ASq
  /\ wgs84BSq = InitWgs84BSq
  /\ wgs84ESq = InitWgs84ESq

Init == InitGlobals /\ hist = [c \in {1} |-> <<>>]

InitConc == InitGlobals /\ hist = [c \in {1, 2} |-> <<>>]

Next ==
  \/ \E c \in DOMAIN hist : Call_Degrees_Radians(c)
  \/ \E c \in DOMAIN hist : Call_Radians_Degrees(c)
  \/ \E c \in DOMAIN hist : Call_AER_ENU(c)
  \/ \E c \in DOMAIN hist : Call_ENU_AER(c)
  \/ \E c \in DOMAIN hist : Call_LLAToXYZ(c)
  \/ \E c \in DOMAIN hist : Call_XYZToLLA(c)
  \/ \E c \in DOMAIN hist : Call_XYZToENU(c)
  \/ \E c \in DOMAIN hist : Call_ENUToXYZ(c)
  \/ \E c \in DOMAIN hist : Call_LLAToENU(c)
  \/ \E c \in DOMAIN hist : Call_HaversineDistance(c)

\* One caller.
Spec == Init /\ [][Next]_vars

\* Two callers, their calls interleaved.
SpecConc == InitConc /\ [][Next]_vars

\* -------------------------------------------------------------- claims
\* The last call of caller c was a call of op.
Did(c, op) == hist[c] # <<>> /\ Last(hist[c]).op = op

\* The call before the last one of caller c.
Prev(c) == hist[c][Len(hist[c]) - 1]

\* The last call of caller c was a call of op that took the result of a
\* call of before, its previous call.
DidAfter(c, op, before) ==
  Len(hist[c]) >= 2 /\ Last(hist[c]).op = op /\ Prev(c).op = before

\* x is y, or |x - y| <= tol
AbsClose(x, y, tol) == x = y \/ FLe(FAbs(FSub(x, y)), tol)

\* x equals y within the relative error rel: x is y (as two NaN are, which
\* the same formula gives on the same input), or |x - y| <= rel * |y|
RelClose(x, y, rel) == x = y \/ FLe(FAbs(FSub(x, y)), FMul(rel, FAbs(y)))

\* C1: HaversineDistance returns an error exactly when the altitude of
\* origin or the altitude of position is not 0.
C1_ErrorIffAltitude ==
  \A c \in DOMAIN hist :
    Did(c, "HaversineDistance") =>
      (Last(hist[c]).out.err
         <=> (Last(hist[c]).arg[1].Altitude # Zero
                \/ Last(hist[c]).arg[2].Altitude # Zero))

\* C1, its case: the same point of nonzero altitude passed twice is
\* rejected.
C1_Witness ==
  \E c \in DOMAIN hist :
    /\ Did(c, "HaversineDistance")
    /\ Last(hist[c]).arg[1] = Last(hist[c]).arg[2]
    /\ Last(hist[c]).arg[1].Altitude # Zero
    /\ Last(hist[c]).out.err

\* C5: for points A and B of altitude 0, HaversineDistance(A, B) and
\* HaversineDistance(B, A) both succeed and return exactly the same Meters.
C5_Symmetric ==
  \A c \in DOMAIN hist :
    ( /\ DidAfter(c, "HaversineDistance", "HaversineDistance")
      /\ Last(hist[c]).arg = <<Prev(c).arg[2], Prev(c).arg[1]>>
      /\ Prev(c).arg[1].Altitude = Zero
      /\ Prev(c).arg[2].Altitude = Zero )
    => ( /\ ~Prev(c).out.err
         /\ ~Last(hist[c]).out.err
         /\ Last(hist[c]).out.m = Prev(c).out.m )

\* C5, its case: the distance between two different points of altitude 0
\* was taken in both orders, and is not 0.
C5_Witness ==
  \E c \in DOMAIN hist :
    /\ DidAfter(c, "HaversineDistance", "HaversineDistance")
    /\ Last(hist[c]).arg = <<Prev(c).arg[2], Prev(c).arg[1]>>
    /\ Prev(c).arg[1] # Prev(c).arg[2]
    /\ ~Prev(c).out.err
    /\ Prev(c).out.m # Zero
    /\ Last(hist[c]).out.m = Prev(c).out.m

\* C6: for a point A of altitude 0, HaversineDistance(A, A) returns exactly
\* 0 meters and no error.
C6_ZeroDistance ==
  \A c \in DOMAIN hist :
    ( /\ Did(c, "HaversineDistance")
      /\ Last(hist[c]).arg[1] = Last(hist[c]).arg[2]
      /\ Last(hist[c]).arg[1].Altitude = Zero )
    => Last(hist[c]).out = [m |-> Zero, err |-> FALSE]

\* C6, its case: a point of altitude 0, off the equator and off the prime
\* meridian, was passed twice.
C6_Witness ==
  \E c \in DOMAIN hist :
    /\ Did(c, "HaversineDistance")
    /\ Last(hist[c]).arg[1] = Last(hist[c]).arg[2]
    /\ Last(hist[c]).arg[1].Altitude = Zero
    /\ Last(hist[c]).arg[1].Latitude # Zero
    /\ Last(hist[c]).arg[1].Longitude # Zero
    /\ Last(hist[c]).out = [m |-> Zero, err |-> FALSE]

\* The geodetic-to-Cartesian transform of the textbooks on the WGS84
\* ellipsoid, for the latitude lat and the longitude lon in radians and the
\* altitude alt: the prime vertical radius N from the latitude.
GeodeticN(lat) ==
  FDiv(wgs84A, FSqrt(FSub(One, FMul(wgs84ESq, FMul(Sin(lat), Sin(lat))))))

GeodeticXYZ(lat, lon, alt, N) ==
  [X |-> FMul(FMul(FAdd(alt, N), Cos(lat)), Cos(lon)),
   Y |-> FMul(FMul(FAdd(alt, N), Cos(lat)), Sin(lon)),
   Z |-> FMul(FAdd(alt, FMul(FSub(One, wgs84ESq), N)), Sin(lat))]

Geodetic(l) ==
  GeodeticXYZ(Degrees_Radians(l.Latitude), Degrees_Radians(l.Longitude),
              l.Altitude, GeodeticN(Degrees_Radians(l.Latitude)))

\* The relative error allowed between two ways of rounding one formula.
RoundingTol == Dec(1, -6)

RelCloseXYZ(a, b, rel) ==
  /\ RelClose(a.X, b.X, rel)
  /\ RelClose(a.Y, b.Y, rel)
  /\ RelClose(a.Z, b.Z, rel)

\* C7: LLAToXYZ computes the standard geodetic-to-Cartesian transform with
\* Latitude and Longitude in their correct roles: X = (Altitude + N) *
\* cos(Latitude) * cos(Longitude), Y = (Altitude + N) * cos(Latitude) *
\* sin(Longitude), Z = (Altitude + (1 - e^2) * N) * sin(Latitude), where
\* N = a / sqrt(1 - e^2 * sin^2(Latitude)), up to rounding.
C7_LLAToXYZStandard ==
  \A c \in DOMAIN hist :
    Did(c, "LLAToXYZ") =>
      RelCloseXYZ(Last(hist[c]).out, Geodetic(Last(hist[c]).arg),
                  RoundingTol)

\* C7, its case: LLAToXYZ was called on a point whose latitude and
\* longitude differ, neither 0, and returned the standard transform.
C7_Witness ==
  \E c \in DOMAIN hist :
    /\ Did(c, "LLAToXYZ")
    /\ Last(hist[c]).arg.Latitude # Last(hist[c]).arg.Longitude
    /\ Last(hist[c]).arg.Latitude # Zero
    /\ Last(hist[c]).arg.Longitude # Zero
    /\ Last(hist[c]).out.X # Zero
    /\ RelCloseXYZ(Last(hist[c]).out, Geodetic(Last(hist[c]).arg),
                   RoundingTol)

\* The unit vectors, and the components of a vector by their number.
UnitXYZ(j) == XYZ(IF j = 1 THEN One ELSE Zero, IF j = 2 THEN One ELSE Zero,
                  IF j = 3 THEN One ELSE Zero)
UnitENU(i) == ENU(IF i = 1 THEN One ELSE Zero, IF i = 2 THEN One ELSE Zero,
                  IF i = 3 THEN One ELSE Zero)
CompXYZ(x, j) == IF j = 1 THEN x.X ELSE IF j = 2 THEN x.Y ELSE x.Z
CompENU(e, i) == IF i = 1 THEN e.East ELSE IF i = 2 THEN e.North ELSE e.Up

\* The rotation of ENUToXYZ at ref is the transpose of the rotation of
\* XYZToENU at ref: entry (j, i) of the one is entry (i, j) of the other.
Transposed(ref) ==
  \A i \in 1..3, j \in 1..3 :
    CompXYZ(ENUToXYZ_d(ref, UnitENU(i)), j)
      = CompENU(XYZToENU_rot(ref, UnitXYZ(j)), i)

\* The translation ENUToXYZ adds is the value XYZToENU subtracts.
SameTranslation(ref) == ENUToXYZ_0(ref) = LLAToXYZ(ref)

\* What rounding may leave of the round trip of a point on the earth, in
\* meters.
RoundTripTol == Dec(2, 0)

AbsCloseXYZ(a, b, tol) ==
  /\ AbsClose(a.X, b.X, tol)
  /\ AbsClose(a.Y, b.Y, tol)
  /\ AbsClose(a.Z, b.Z, tol)

\* C9: ENUToXYZ(ref, .) is the inverse of XYZToENU(ref, .): its rotation is
\* the transpose of the rotation of XYZToENU, its translation is the
\* LLAToXYZ(ref) that XYZToENU subtracts, and ENUToXYZ(ref, XYZToENU(ref,
\* xyz)) is xyz, up to rounding.
C9_Inverse ==
  \A c \in DOMAIN hist :
    /\ (Did(c, "XYZToENU") \/ Did(c, "ENUToXYZ")) =>
         (Transposed(Last(hist[c]).ref) /\ SameTranslation(Last(hist[c]).ref))
    /\ ( /\ DidAfter(c, "ENUToXYZ", "XYZToENU")
         /\ Last(hist[c]).ref = Prev(c).ref
         /\ Last(hist[c]).arg = Prev(c).out )
       => AbsCloseXYZ(Last(hist[c]).out, Prev(c).arg, RoundTripTol)

\* C9, its case: a point off the reference went through XYZToENU and back
\* through ENUToXYZ at a reference off the equator, and came back.
C9_Witness ==
  \E c \in DOMAIN hist :
    /\ DidAfter(c, "ENUToXYZ", "XYZToENU")
    /\ Last(hist[c]).ref = Prev(c).ref
    /\ Last(hist[c]).arg = Prev(c).out
    /\ Prev(c).ref.Latitude # Zero
    /\ Prev(c).out.East # Zero
    /\ Prev(c).out.North # Zero
    /\ Prev(c).out.Up # Zero
    /\ Transposed(Prev(c).ref)
    /\ AbsCloseXYZ(Last(hist[c]).out, Prev(c).arg, RoundTripTol)

\* The point e is the position of ref shifted only along Z.
ShiftedAlongZ(ref, e) ==
  e.X = LLAToXYZ(ref).X /\ e.Y = LLAToXYZ(ref).Y

\* C10: XYZToENU(ref, p), for p the position LLAToXYZ(ref) shifted only
\* along Z, returns East exactly 0.
C10_EastZero ==
  \A c \in DOMAIN hist :
    (Did(c, "XYZToENU")
       /\ ShiftedAlongZ(Last(hist[c]).ref, Last(hist[c]).arg))
    => Last(hist[c]).out.East = Zero

\* C10, its case: the position of a reference of nonzero latitude, shifted
\* along Z by an offset that is not 0, went through XYZToENU, which
\* returned East 0 and a North that is not 0.
C10_Witness ==
  \E c \in DOMAIN hist :
    /\ Did(c, "XYZToENU")
    /\ ShiftedAlongZ(Last(hist[c]).ref, Last(hist[c]).arg)
    /\ Last(hist[c]).arg.Z # LLAToXYZ(Last(hist[c]).ref).Z
    /\ Last(hist[c]).ref.Latitude # Zero
    /\ Last(hist[c]).out.East = Zero
    /\ Last(hist[c]).out.North # Zero

\* The relative error of the AER/ENU round trip, and of the chain through
\* the coordinate system.
RoundTripRel == Dec(1, -6)

\* C2: for an ENU that is not all zero, enu.AER().ENU() reproduces enu:
\* East, North and Up each within the relative error 1e-6.
C2_RoundTrip ==
  \A c \in DOMAIN hist :
    ( /\ DidAfter(c, "AER_ENU", "ENU_AER")
      /\ Last(hist[c]).arg = Prev(c).out
      /\ Prev(c).arg # ENU(Zero, Zero, Zero) )
    => ( /\ RelClose(Last(hist[c]).out.East, Prev(c).arg.East, RoundTripRel)
         /\ RelClose(Last(hist[c]).out.North, Prev(c).arg.North,
                     RoundTripRel)
         /\ RelClose(Last(hist[c]).out.Up, Prev(c).arg.Up, RoundTripRel) )

\* C3: ENU.AER() returns its angles in degrees: Azimuth is atan2(East,
\* North) and Elevation is atan2(Up, sqrt(East^2 + North^2)), each
\* converted from radians to degrees, up to rounding.
C3_AnglesInDegrees ==
  \A c \in DOMAIN hist :
    Did(c, "ENU_AER") =>
      LET enu == Last(hist[c]).arg
          r   == FSqrt(FAdd(FMul(enu.East, enu.East),
                            FMul(enu.North, enu.North)))
      IN  /\ RelClose(Last(hist[c]).out.Azimuth,
                      Radians_Degrees(Atan2(enu.East, enu.North)),
                      RoundingTol)
          /\ RelClose(Last(hist[c]).out.Elevation,
                      Radians_Degrees(Atan2(enu.Up, r)), RoundingTol)

\* The call of caller c that lies k calls before its last one.
Back(c, k) == hist[c][Len(hist[c]) - k]

\* The last four calls of caller c were the chain LLAToXYZ, XYZToENU,
\* ENUToXYZ, XYZToLLA, each on the result of the one before, the two in the
\* middle at one reference.
DidChain(c) ==
  /\ Len(hist[c]) >= 4
  /\ Back(c, 3).op = "LLAToXYZ"
  /\ Back(c, 2).op = "XYZToENU" /\ Back(c, 2).arg = Back(c, 3).out
  /\ Back(c, 1).op = "ENUToXYZ" /\ Back(c, 1).arg = Back(c, 2).out
  /\ Back(c, 1).ref = Back(c, 2).ref
  /\ Back(c, 0).op = "XYZToLLA" /\ Back(c, 0).arg = Back(c, 1).out

\* What an angle of at most 180 degrees and an altitude of at most 10^7
\* meters may differ by when they are recovered within the relative error
\* 1e-7, made wider by what rounding to 8 digits adds: an angle by 1e-4
\* degrees, an altitude by 5 meters.
ChainAngleTol == Dec(1, -4)
ChainAltitudeTol == Dec(5, 0)

Alone(call) ==
  CASE call.op = "Degrees_Radians" -> Degrees_Radians(call.arg)
    [] call.op = "Radians_Degrees" -> Radians_Degrees(call.arg)
    [] call.op = "AER_ENU" -> AER_ENU(call.arg)
    [] call.op = "ENU_AER" -> ENU_AER(call.arg)
    [] call.op = "LLAToXYZ" -> LLAToXYZ(call.arg)
    [] call.op = "XYZToLLA" -> XYZToLLA(call.arg)
    [] call.op = "XYZToENU" -> XYZToENU(call.ref, call.arg)
    [] call.op = "ENUToXYZ" -> ENUToXYZ(call.ref, call.arg)
    [] call.op = "LLAToENU" -> LLAToENU(call.ref, call.arg)
    [] call.op = "HaversineDistance" ->
         HaversineDistance(call.arg[1], call.arg[2])

\* C8: no operation writes a package variable: after any interleaving of
\* the calls of the callers, earthRadiusMeters and the wgs84 variables are
\* what they were initialized to, and every call has returned what it
\* returns to a caller running alone.
C8_NoSharedWrites ==
  /\ earthRadiusMeters = InitEarthRadiusMeters
  /\ wgs84A = InitWgs84A
  /\ wgs84B = InitWgs84B
  /\ wgs84F = InitWgs84F
  /\ wgs84FInv = InitWgs84FInv
  /\ wgs84ASq = InitWgs84ASq
  /\ wgs84BSq = InitWgs84BSq
  /\ wgs84ESq = InitWgs84ESq
  /\ \A c \in DOMAIN hist :
       hist[c] # <<>> => Last(hist[c]).out = Alone(Last(hist[c]))

\* C8, its case: two callers have each made two calls, one of them
\* HaversineDistance, the other the methods of the coordinate system.
C8_Witness ==
  \E c \in DOMAIN hist, d \in DOMAIN hist :
    /\ c # d
    /\ Len(hist[c]) = 2 /\ Len(hist[d]) = 2
    /\ Did(c, "HaversineDistance")
    /\ Did(d, "XYZToENU")
    /\ Last(hist[d]).out # ENU(Zero, Zero, Zero)

====
